---- MODULE Spec2Model ----
(***************************************************************************)
(* A model of src/src/add-to-project.ts: one run of addToProject().        *)
(*                                                                         *)
(* A text the code inspects character by character (split, trim,           *)
(* toLowerCase, startsWith, the urlParse regular expression) is a sequence *)
(* of one-character strings.  A text the code only compares as a whole     *)
(* (remove-unmatched, fuzzy-match, ids) is a TLA+ string.                  *)
(***************************************************************************)
EXTENDS Integers, Sequences, FiniteSets

\* ------------------------------------------------------------------ bounds

\* Longest raw value of the `labeled` and `milestoned` inputs.
MaxRawLen == 3
\* Longest milestone title of the event payload.
MaxTitleLen == 2
\* Most labels on the event's issue.
MaxLabels == 2
\* Most items held by the remote project (three pages of PageSize).
MaxItems == 201

\* items(first: 100, ...) of the projectIssues query.
PageSize == 100

\* ------------------------------------------------------------------- texts

Upper == <<"A","B","C","D","E","F","G","H","I","J","K","L","M",
           "N","O","P","Q","R","S","T","U","V","W","X","Y","Z">>
Lower == <<"a","b","c","d","e","f","g","h","i","j","k","l","m",
           "n","o","p","q","r","s","t","u","v","w","x","y","z">>
Digits == <<"0","1","2","3","4","5","6","7","8","9">>

\* String.prototype.toLowerCase, one character.
ToLowerChar(c) ==
    IF \E i \in 1..Len(Upper) : Upper[i] = c
    THEN Lower[CHOOSE i \in 1..Len(Upper) : Upper[i] = c]
    ELSE c

\* String.prototype.toLowerCase.
ToLower(s) == [i \in 1..Len(s) |-> ToLowerChar(s[i])]

IsSpace(c) == c = " "

\* String.prototype.trim.
RECURSIVE Trim(_)
Trim(s) ==
    IF s = <<>> THEN s
    ELSE IF IsSpace(s[1]) THEN Trim(Tail(s))
    ELSE IF IsSpace(s[Len(s)]) THEN Trim(SubSeq(s, 1, Len(s) - 1))
    ELSE s

\* String.prototype.split(sep) for a one-character separator.
RECURSIVE Split(_, _)
Split(s, sep) ==
    IF \A i \in 1..Len(s) : s[i] # sep THEN <<s>>
    ELSE LET k == CHOOSE i \in 1..Len(s) :
                     s[i] = sep /\ \A j \in 1..(i - 1) : s[j] # sep
         IN  <<SubSeq(s, 1, k - 1)>> \o Split(SubSeq(s, k + 1, Len(s)), sep)

\* Array.prototype.filter(l => l.length > 0).
RECURSIVE NonEmptyOnly(_)
NonEmptyOnly(xs) ==
    IF xs = <<>> THEN <<>>
    ELSE IF Len(Head(xs)) > 0 THEN <<Head(xs)>> \o NonEmptyOnly(Tail(xs))
    ELSE NonEmptyOnly(Tail(xs))

\* Array.prototype.includes.
Includes(xs, x) == \E i \in 1..Len(xs) : xs[i] = x

\* String.prototype.startsWith.
StartsWith(s, p) == Len(p) <= Len(s) /\ SubSeq(s, 1, Len(p)) = p

\* Whether text s holds the literal lit at position i.
LitAt(s, i, lit) ==
    /\ i + Len(lit) - 1 <= Len(s)
    /\ \A j \in 1..Len(lit) : s[i + j - 1] = lit[j]

IsDigit(c) == \E d \in 1..Len(Digits) : Digits[d] = c

DigitValue(c) == (CHOOSE d \in 1..Len(Digits) : Digits[d] = c) - 1

\* \d+ : the length of the longest run of digits that starts at i.
RECURSIVE DigitRunLen(_, _)
DigitRunLen(s, i) ==
    IF i <= Len(s) /\ IsDigit(s[i]) THEN 1 + DigitRunLen(s, i + 1) ELSE 0

\* [^/]+ : the length of the longest run of non-slash characters from i.
RECURSIVE NonSlashRunLen(_, _)
NonSlashRunLen(s, i) ==
    IF i <= Len(s) /\ s[i] # "/" THEN 1 + NonSlashRunLen(s, i + 1) ELSE 0

\* parseInt(digits, 10) of a non-empty run of decimal digits.
RECURSIVE ParseInt(_)
ParseInt(ds) ==
    IF ds = <<>> THEN 0
    ELSE 10 * ParseInt(SubSeq(ds, 1, Len(ds) - 1)) + DigitValue(ds[Len(ds)])

\* All texts over alphabet of length at most n.
TextsUpTo(alphabet, n) == UNION {[1..k -> alphabet] : k \in 0..n}

\* --------------------------------------------------------------- literals

T_and == <<"a","n","d">>
T_not == <<"n","o","t">>
T_or == <<"o","r">>
T_https == <<"h","t","t","p","s",":","/","/">>
T_http == <<"h","t","t","p",":","/","/">>
T_github == <<"g","i","t","h","u","b",".","c","o","m">>
T_githubxcom == <<"g","i","t","h","u","b","x","c","o","m">>
T_orgs == <<"o","r","g","s">>
T_users == <<"u","s","e","r","s">>
T_teams == <<"t","e","a","m","s">>
T_projects == <<"p","r","o","j","e","c","t","s">>
T_project == <<"p","r","o","j","e","c","t">>
T_acme == <<"a","c","m","e">>
T_views == <<"/","v","i","e","w","s">>

\* JavaScript's undefined, for the values the model keeps as strings.
Undefined == "undefined"

\* ------------------------------------------------------------ urlParse

\* const urlParse = /^(?:https:\/\/)?github\.com\/(?<ownerType>orgs|users)\/
\*   (?<ownerName>[^/]+)\/projects\/(?<projectNumber>\d+)/
\* projectUrl.match(urlParse): the named groups, or no match.  The pattern is
\* anchored at the start only; each quantifier is greedy and what follows it
\* cannot start with a character of the run, so the longest run is the only
\* split that can match.
NoMatch ==
    [matched |-> FALSE, ownerType |-> <<>>, ownerName |-> <<>>, projectNumber |-> <<>>]

UrlHostAt(s) == IF LitAt(s, 1, T_https) THEN Len(T_https) + 1 ELSE 1

UrlOwnerType(s, i) ==
    IF LitAt(s, i, T_orgs) THEN T_orgs
    ELSE IF LitAt(s, i, T_users) THEN T_users
    ELSE <<>>

UrlDigitRun(s, i) == DigitRunLen(s, i)

UrlMatch(s) ==
    LET h == UrlHostAt(s)
        t == h + Len(T_github) + 1
        ownerType == UrlOwnerType(s, t)
        o == t + Len(ownerType) + 1
        n == NonSlashRunLen(s, o)
        p == o + n
        d == p + 1 + Len(T_projects) + 1
        k == UrlDigitRun(s, d)
    IN  IF /\ LitAt(s, h, T_github \o <<"/">>)
           /\ ownerType # <<>>
           /\ LitAt(s, t + Len(ownerType), <<"/">>)
           /\ n >= 1
           /\ LitAt(s, p, <<"/">> \o T_projects \o <<"/">>)
           /\ k >= 1
        THEN [matched |-> TRUE, ownerType |-> ownerType,
              ownerName |-> SubSeq(s, o, o + n - 1),
              projectNumber |-> SubSeq(s, d, d + k - 1)]
        ELSE NoMatch

\* mustGetOwnerTypeQuery answering 'organization' for 'users' too.
MutOwnerTypeQuery(ownerType) ==
    IF ownerType = T_orgs \/ ownerType = T_users THEN "organization"
    ELSE "Unsupported ownerType"

\* mustGetOwnerTypeQuery: 'organization', 'user', or the thrown error.
mustGetOwnerTypeQuery(ownerType) ==
    IF ownerType = T_orgs THEN "organization"
    ELSE IF ownerType = T_users THEN "user"
    ELSE "Unsupported ownerType"

\* ------------------------------------------------------------------ state

VARIABLES
    \* core.getInput(...) values and github.context.payload
    projectUrl, labeledInput, labelOperatorInput, milestonedInput,
    removeUnmatched, fuzzyMatch, payload,
    \* the remote project's items as the run sees them, and whether the host
    \* defines a global named ownerName (the identifier of line 182)
    remote, globalOwnerName,
    \* addToProject's locals
    pc, shouldRemove, shouldFuzzyMatch, projectOwnerName, projectNumber,
    ownerTypeQuery, projectId, contentId, item, hasNextPage, cursor,
    \* what the run did: the outcome of the filters, the octokit.graphql calls
    \* issued, the pages received, core.setOutput, core.warning, the thrown error
    decision, labelGate, milestoneGate, calls, pages, outputs, warnings, error

inputs == <<projectUrl, labeledInput, labelOperatorInput, milestonedInput,
            removeUnmatched, fuzzyMatch, payload, remote, globalOwnerName>>

urlLocals == <<projectOwnerName, projectNumber, ownerTypeQuery>>

loopLocals == <<item, hasNextPage, cursor>>

vars == <<inputs, pc, shouldRemove, shouldFuzzyMatch, urlLocals, projectId,
          contentId, loopLocals, decision, labelGate, milestoneGate, calls,
          pages, outputs, warnings, error>>

\* ----------------------------------------------------------- the payload

NoMilestone == [present |-> FALSE, title |-> <<>>]

Milestone(t) == [present |-> TRUE, title |-> t]

\* payload.issue / payload.pull_request when the event carries none.
NoItem == [present |-> FALSE, number |-> 0, labels |-> <<>>,
           milestone |-> NoMilestone, node_id |-> Undefined]

IssueItem(ls, ms) == [present |-> TRUE, number |-> 1, labels |-> ls,
                      milestone |-> ms, node_id |-> "I_1"]

PullItem(ls, ms) == [present |-> TRUE, number |-> 2, labels |-> ls,
                     milestone |-> ms, node_id |-> "PR_2"]

\* const issue = github.context.payload.issue ?? github.context.payload.pull_request
issue == IF payload.issue.present THEN payload.issue ELSE payload.pull_request

\* IssueLabels with the toLowerCase of line 62 left out.
MutIssueLabels(iss) ==
    IF iss.present THEN [i \in 1..Len(iss.labels) |-> iss.labels[i].name]
    ELSE <<>>

\* (issue?.labels ?? []).map(l => l.name.toLowerCase())
IssueLabels(iss) ==
    IF iss.present THEN [i \in 1..Len(iss.labels) |-> ToLower(iss.labels[i].name)]
    ELSE <<>>

issueLabels == IssueLabels(issue)

\* issue?.milestone?.title : a title, or undefined.
IssueMilestone(iss) ==
    IF iss.present /\ iss.milestone.present
    THEN [defined |-> TRUE, value |-> iss.milestone.title]
    ELSE [defined |-> FALSE, value |-> <<>>]

issueMilestone == IssueMilestone(issue)

\* ------------------------------------------------------------ the inputs

\* getInput('labeled').split(',').map(l => l.trim().toLowerCase()).filter(l => l.length > 0)
ParseLabeled(raw) ==
    LET parts == Split(raw, ",")
    IN  NonEmptyOnly([i \in 1..Len(parts) |-> ToLower(Trim(parts[i]))])

labeled == ParseLabeled(labeledInput)

\* getInput('label-operator').trim().toLocaleLowerCase()
ParseLabelOperator(raw) == ToLower(Trim(raw))

labelOperator == ParseLabelOperator(labelOperatorInput)

\* getInput('milestoned').split(',').map(l => l.trim()).filter(l => l.length > 0)
ParseMilestoned(raw) ==
    LET parts == Split(raw, ",")
    IN  NonEmptyOnly([i \in 1..Len(parts) |-> Trim(parts[i])])

milestoned == ParseMilestoned(milestonedInput)

\* ------------------------------------------------------------ the filters

\* Lines 71-86: whether the label filter lets the run go on (no `return`).
LabelsPass(op, filter, labels) ==
    IF op = T_and
    THEN \A i \in 1..Len(filter) : Includes(labels, filter[i])
    ELSE IF op = T_not
    THEN ~(Len(filter) > 0 /\ \E i \in 1..Len(labels) : Includes(filter, labels[i]))
    ELSE ~(Len(filter) > 0 /\ ~\E i \in 1..Len(labels) : Includes(filter, labels[i]))

\* fuzzyMatch === 'true' || fuzzyMatch === 'True', and the same test of
\* removeUnmatched.
IsTrue(v) == v = "true" \/ v = "True"

\* milestoneEnabled with the operands of startsWith exchanged
\* (m.startsWith(milestone)).
MutMilestoneEnabled(fuzzy, filter, milestone) ==
    IF ~fuzzy
    THEN IF milestone.defined /\ Includes(filter, milestone.value)
         THEN "true" ELSE "false"
    ELSE IF Len(filter) = 0 THEN "false"
    ELSE IF ~milestone.defined THEN "TypeError"
    ELSE IF \E i \in 1..Len(filter) : StartsWith(filter[i], milestone.value)
         THEN "true" ELSE "false"

\* function milestoneEnabled(milestone): "true", "false", or "TypeError" when
\* milestone.startsWith is evaluated on undefined (Array.prototype.some calls
\* its callback for the first entry of a non-empty array).
milestoneEnabled(fuzzy, filter, milestone) ==
    IF ~fuzzy
    THEN IF milestone.defined /\ Includes(filter, milestone.value)
         THEN "true" ELSE "false"
    ELSE IF Len(filter) = 0 THEN "false"
    ELSE IF ~milestone.defined THEN "TypeError"
    ELSE IF \E i \in 1..Len(filter) : StartsWith(milestone.value, filter[i])
         THEN "true" ELSE "false"

\* ------------------------------------------------------------ the remote

\* The nodes of items(first: 100, after: $after): the remote project holds
\* remote.totalCount items, item i has id i and cursor i, and the item at
\* remote.linked (0: none) is the one whose content is issue "I_1".  The
\* query asks for content { ... on Issue { id } }, so no item carries the
\* node id of a pull request.
RemoteNode(r, i) ==
    [id |-> i, content |-> [id |-> IF i = r.linked THEN "I_1" ELSE "I_other"]]

RemotePage(r, after) ==
    LET last == IF after + PageSize < r.totalCount THEN after + PageSize
                ELSE r.totalCount
    IN  [nodes |-> [k \in 1..(last - after) |-> RemoteNode(r, after + k)],
         pageInfo |-> [hasNextPage |-> last < r.totalCount,
                       endCursor |-> IF last > after THEN last ELSE 0],
         totalCount |-> r.totalCount]

\* nodes.find(n => n.content.id === issue.node_id): the id of the first such
\* node, or 0 for undefined.
FindItem(nodes, nodeId) ==
    IF \E i \in 1..Len(nodes) : nodes[i].content.id = nodeId
    THEN nodes[CHOOSE i \in 1..Len(nodes) :
                   /\ nodes[i].content.id = nodeId
                   /\ \A j \in 1..(i - 1) : nodes[j].content.id # nodeId].id
    ELSE 0

\* NextCursor when the cursor is never advanced.
MutNextCursor(response) == 0

\* cursor = response.organization.projectNext.items.pageInfo.endCursor
NextCursor(response) == response.pageInfo.endCursor

\* One octokit.graphql call, as the remote receives it.
Call(op, login, number, after, itemId, pid, cid) ==
    [op |-> op, login |-> login, number |-> number, after |-> after,
     itemId |-> itemId, projectId |-> pid, contentId |-> cid]

\* ------------------------------------------------------------ the run

\* A thrown error (or rejected promise) leaves addToProject.
Throw(e) == pc' = "failed" /\ error' = e

\* Skip with the `return` left out: the run falls through to line 109.
MutSkip == pc' = "resolve" /\ decision' = "SKIP"

\* core.info(`Skipping issue ...`); return
Skip == pc' = "done" /\ decision' = "SKIP"

\* Lines 70-86.
LabelFilter ==
    /\ pc = "start"
    /\ IF LabelsPass(labelOperator, labeled, issueLabels)
       THEN /\ labelGate' = "pass"
            /\ pc' = "milestone"
            /\ UNCHANGED decision
       ELSE /\ labelGate' = "skip"
            /\ Skip
    /\ UNCHANGED <<inputs, shouldRemove, shouldFuzzyMatch, urlLocals, projectId,
                   contentId, loopLocals, milestoneGate, calls, pages, outputs,
                   warnings, error>>

\* Lines 88-107.
MilestoneFilter ==
    /\ pc = "milestone"
    /\ shouldFuzzyMatch' = IsTrue(fuzzyMatch)
    /\ LET enabled == IF Len(milestoned) > 0
                      THEN milestoneEnabled(IsTrue(fuzzyMatch), milestoned, issueMilestone)
                      ELSE "not called"
       IN  CASE enabled = "TypeError" ->
                  /\ Throw("TypeError")
                  /\ UNCHANGED <<shouldRemove, decision, milestoneGate>>
             [] enabled = "false" /\ IsTrue(removeUnmatched) ->
                  /\ shouldRemove' = TRUE
                  /\ decision' = "REMOVE"
                  /\ milestoneGate' = "nomatch"
                  /\ pc' = "resolve"
                  /\ UNCHANGED error
             [] enabled = "false" /\ ~IsTrue(removeUnmatched) ->
                  /\ Skip
                  /\ milestoneGate' = "nomatch"
                  /\ UNCHANGED <<shouldRemove, error>>
             [] OTHER ->
                  /\ decision' = "ADD"
                  /\ milestoneGate' = "match"
                  /\ pc' = "resolve"
                  /\ UNCHANGED <<shouldRemove, error>>
    /\ UNCHANGED <<inputs, urlLocals, projectId, contentId, loopLocals,
                   labelGate, calls, pages, outputs, warnings>>

\* Lines 109-141: match the URL, then issue the getProject query.
ResolveProject ==
    /\ pc = "resolve"
    /\ LET urlMatch == UrlMatch(projectUrl)
           query == mustGetOwnerTypeQuery(urlMatch.ownerType)
       IN  IF ~urlMatch.matched
           THEN /\ Throw("Invalid project URL")
                /\ UNCHANGED <<urlLocals, calls>>
           ELSE IF query = "Unsupported ownerType"
           THEN /\ Throw("Unsupported ownerType")
                /\ UNCHANGED <<urlLocals, calls>>
           ELSE /\ projectOwnerName' = urlMatch.ownerName
                /\ projectNumber' = ParseInt(urlMatch.projectNumber)
                /\ ownerTypeQuery' = query
                /\ calls' = Append(calls,
                       Call("getProject", urlMatch.ownerName,
                            ParseInt(urlMatch.projectNumber), 0, 0, Undefined, Undefined))
                /\ pc' = "await_getProject"
                /\ UNCHANGED error
    /\ UNCHANGED <<inputs, shouldRemove, shouldFuzzyMatch, projectId, contentId,
                   loopLocals, decision, labelGate, milestoneGate, pages,
                   outputs, warnings>>

\* Lines 156-186: the projectIssues query of one loop iteration.  Its
\* variables name `ownerName`, which the module never declares: evaluating
\* it throws ReferenceError unless the host defines a global of that name.
SendProjectIssues(after) ==
    IF ~globalOwnerName.defined
    THEN /\ Throw("ReferenceError")
         /\ UNCHANGED calls
    ELSE /\ calls' = Append(calls,
                Call("projectIssues", globalOwnerName.value, projectNumber, after, 0,
                     Undefined, Undefined))
         /\ pc' = "await_projectIssues"
         /\ UNCHANGED error

\* Lines 199-212: the removeIssueFromProject mutation.
SendRemove(found, pid) ==
    /\ calls' = Append(calls,
           Call("removeIssueFromProject", <<>>, 0, 0, found, pid, Undefined))
    /\ pc' = "await_remove"
    /\ UNCHANGED error

\* Lines 216-236: the addIssueToProject mutation.
SendAdd(pid, cid) ==
    /\ calls' = Append(calls, Call("addIssueToProject", <<>>, 0, 0, 0, pid, cid))
    /\ pc' = "await_add"
    /\ UNCHANGED error

\* NotFound as a fatal error instead of a warning.
MutNotFound ==
    /\ Throw("Could not find Project Item")
    /\ UNCHANGED <<calls, warnings>>

\* Lines 193-196: core.warning(`Could not find Project Item ...`); return
NotFound ==
    /\ warnings' = warnings + 1
    /\ pc' = "done"
    /\ UNCHANGED <<calls, error>>

\* idResp[ownerTypeQuery]?.projectV2.id for a response whose root is there
\* ("ok") or is null or missing ("no root").
ProjectIdOf(resp) == IF resp = "ok" THEN "PVT_1" ELSE Undefined

\* Lines 143-154 and the first call of either branch: the getProject query
\* resolves (or rejects).  "null project" is a root whose projectV2 is null.
GetProjectResponse ==
    /\ pc = "await_getProject"
    /\ \E resp \in {"error", "null project", "no root", "ok"} :
         CASE resp = "error" ->
                /\ Throw("RemoteCallError")
                /\ UNCHANGED <<projectId, contentId, loopLocals, calls>>
           [] resp = "null project" ->
                /\ Throw("TypeError")
                /\ UNCHANGED <<projectId, contentId, loopLocals, calls>>
           [] OTHER ->
                /\ projectId' = ProjectIdOf(resp)
                /\ contentId' = issue.node_id
                /\ IF shouldRemove /\ issue.present
                   THEN /\ item' = 0
                        /\ hasNextPage' = TRUE
                        /\ cursor' = 0
                        /\ SendProjectIssues(0)
                   ELSE /\ SendAdd(ProjectIdOf(resp), issue.node_id)
                        /\ UNCHANGED loopLocals
    /\ UNCHANGED <<inputs, shouldRemove, shouldFuzzyMatch, urlLocals, decision,
                   labelGate, milestoneGate, pages, outputs, warnings>>

\* Lines 187-212: a projectIssues query resolves (or rejects); the loop
\* goes round, or ends in the warning or in the remove mutation.
ProjectIssuesResponse ==
    /\ pc = "await_projectIssues"
    /\ \E resp \in {"error", "no organization", "page"} :
         CASE resp = "error" ->
                /\ Throw("RemoteCallError")
                /\ UNCHANGED <<loopLocals, calls, pages, warnings>>
           [] resp = "no organization" ->
                /\ pc' = "done"
                /\ UNCHANGED <<loopLocals, calls, pages, warnings, error>>
           [] OTHER ->
                LET response == RemotePage(remote, cursor)
                    found == FindItem(response.nodes, issue.node_id)
                IN  /\ item' = found
                    /\ hasNextPage' = response.pageInfo.hasNextPage
                    /\ cursor' = NextCursor(response)
                    /\ pages' = Append(pages,
                           [first |-> cursor + 1, count |-> Len(response.nodes),
                            hasNextPage |-> response.pageInfo.hasNextPage,
                            endCursor |-> response.pageInfo.endCursor,
                            totalCount |-> response.totalCount,
                            match |-> found])
                    /\ IF found = 0 /\ response.pageInfo.hasNextPage
                       THEN SendProjectIssues(NextCursor(response)) /\ UNCHANGED warnings
                       ELSE IF found = 0
                       THEN NotFound
                       ELSE SendRemove(found, projectId) /\ UNCHANGED warnings
    /\ UNCHANGED <<inputs, shouldRemove, shouldFuzzyMatch, urlLocals, projectId,
                   contentId, decision, labelGate, milestoneGate, outputs>>

\* Line 213: the remove mutation resolves (or rejects).
RemoveResponse ==
    /\ pc = "await_remove"
    /\ \E resp \in {"error", "ok"} :
         IF resp = "error"
         THEN Throw("RemoteCallError") /\ UNCHANGED outputs
         ELSE /\ outputs' = Append(outputs, [name |-> "deletedItemId", value |-> "response"])
              /\ pc' = "done"
              /\ UNCHANGED error
    /\ UNCHANGED <<inputs, shouldRemove, shouldFuzzyMatch, urlLocals, projectId,
                   contentId, loopLocals, decision, labelGate, milestoneGate,
                   calls, pages, warnings>>

\* Line 237: the add mutation resolves (or rejects).  "no item" is a
\* response without addProjectNextItem.projectNextItem.
AddResponse ==
    /\ pc = "await_add"
    /\ \E resp \in {"error", "no item", "ok"} :
         CASE resp = "error" -> Throw("RemoteCallError") /\ UNCHANGED outputs
           [] resp = "no item" -> Throw("TypeError") /\ UNCHANGED outputs
           [] OTHER ->
                /\ outputs' = Append(outputs, [name |-> "itemId", value |-> "PNI_new"])
                /\ pc' = "done"
                /\ UNCHANGED error
    /\ UNCHANGED <<inputs, shouldRemove, shouldFuzzyMatch, urlLocals, projectId,
                   contentId, loopLocals, decision, labelGate, milestoneGate,
                   calls, pages, warnings>>

Next ==
    \/ LabelFilter
    \/ MilestoneFilter
    \/ ResolveProject
    \/ GetProjectResponse
    \/ ProjectIssuesResponse
    \/ RemoveResponse
    \/ AddResponse

\* ------------------------------------------------------------ the inputs

\* core.getInput trims its value, so a raw input has no outer whitespace.
RawInputs(alphabet) == {s \in TextsUpTo(alphabet, MaxRawLen) : Trim(s) = s}

LabelOperatorInputs == {<<>>, T_and, <<"A","N","D">>, T_not, <<"N","o","t">>,
                        T_or, <<"x","o","r">>}

FuzzyFlags == {"true", "True", "TRUE", ""}

RemoveFlags == {"true", "True", "false", ""}

LabelLists(names) ==
    UNION {[1..k -> {[name |-> n] : n \in names}] : k \in 0..MaxLabels}

Titles(alphabet) == {NoMilestone} \cup {Milestone(t) : t \in TextsUpTo(alphabet, MaxTitleLen)}

GoodUrl == T_https \o T_github \o <<"/">> \o T_orgs \o <<"/">> \o T_acme
           \o <<"/">> \o T_projects \o <<"/", "7">>

UserUrl == T_github \o <<"/">> \o T_users \o <<"/">> \o T_acme
           \o <<"/">> \o T_projects \o <<"/", "1", "2">>

BadUrl == T_https \o T_github \o <<"/">> \o T_teams \o <<"/">> \o T_acme
          \o <<"/">> \o T_projects \o <<"/", "7">>

\* Project URLs put together from well-formed and malformed parts.
UrlCandidates ==
    {scheme \o host \o <<"/">> \o kind \o <<"/">> \o owner \o <<"/">> \o seg
       \o <<"/">> \o number \o rest :
       scheme \in {<<>>, T_https, T_http},
       host \in {T_github, T_githubxcom},
       kind \in {T_orgs, T_users, T_teams},
       owner \in {T_acme, <<>>},
       seg \in {T_projects, T_project},
       number \in {<<"7">>, <<"0">>, <<"1","2">>, <<>>, <<"x","7">>, <<"7","x">>},
       rest \in {<<>>, T_views}}

NoGlobal == [defined |-> FALSE, value |-> <<>>]

SomeGlobal == [defined |-> TRUE, value |-> T_acme]

\* The state when addToProject is entered, before line 70.
Start ==
    /\ pc = "start"
    /\ shouldRemove = FALSE
    /\ shouldFuzzyMatch = FALSE
    /\ projectOwnerName = <<>>
    /\ projectNumber = 0
    /\ ownerTypeQuery = Undefined
    /\ projectId = Undefined
    /\ contentId = Undefined
    /\ item = 0
    /\ hasNextPage = TRUE
    /\ cursor = 0
    /\ decision = "NONE"
    /\ labelGate = "unset"
    /\ milestoneGate = "unset"
    /\ calls = <<>>
    /\ pages = <<>>
    /\ outputs = <<>>
    /\ warnings = 0
    /\ error = "none"

\* Every labeled / label-operator / label list, on an event with a milestone.
LabelInputs ==
    /\ labeledInput \in RawInputs({"a", "B", ",", " "})
    /\ labelOperatorInput \in LabelOperatorInputs
    /\ payload \in {[issue |-> IssueItem(ls, NoMilestone), pull_request |-> NoItem] :
                      ls \in LabelLists({<<"a">>, <<"A">>, <<"b">>})}
    /\ milestonedInput = <<>>
    /\ removeUnmatched = ""
    /\ fuzzyMatch = ""
    /\ projectUrl = GoodUrl
    /\ remote = [totalCount |-> 1, linked |-> 1]
    /\ globalOwnerName = NoGlobal

\* Every milestoned / fuzzy-match / remove-unmatched / milestone title.
MilestoneInputs ==
    /\ milestonedInput \in RawInputs({"v", "1", ",", " "})
    /\ fuzzyMatch \in FuzzyFlags
    /\ removeUnmatched \in RemoveFlags
    /\ payload \in {[issue |-> IssueItem(<<>>, ms), pull_request |-> NoItem] :
                      ms \in Titles({"v", "1"})}
    /\ labeledInput = <<>>
    /\ labelOperatorInput = <<>>
    /\ projectUrl = GoodUrl
    /\ remote = [totalCount |-> 1, linked |-> 1]
    /\ globalOwnerName = SomeGlobal

\* Every project URL, on a run that skips, adds or removes.
UrlInputs ==
    /\ projectUrl \in UrlCandidates
    /\ milestonedInput \in {<<>>, <<"v">>}
    /\ removeUnmatched \in {"true", ""}
    /\ fuzzyMatch = ""
    /\ payload = [issue |-> IssueItem(<<>>, Milestone(<<"1">>)), pull_request |-> NoItem]
    /\ labeledInput = <<>>
    /\ labelOperatorInput = <<>>
    /\ remote = [totalCount |-> 1, linked |-> 1]
    /\ globalOwnerName = SomeGlobal

\* Every remote project, on a run that removes.
RemoteInputs ==
    /\ remote \in {[totalCount |-> t, linked |-> l] : t \in 0..MaxItems, l \in 0..MaxItems}
    /\ remote.linked <= remote.totalCount
    /\ globalOwnerName = SomeGlobal
    /\ payload = [issue |-> IssueItem(<<>>, NoMilestone), pull_request |-> NoItem]
    /\ milestonedInput = <<"v">>
    /\ removeUnmatched = "True"
    /\ fuzzyMatch = "false"
    /\ labeledInput = <<>>
    /\ labelOperatorInput = <<>>
    /\ projectUrl = UserUrl

\* Small values of every input at once.
CrossInputs ==
    /\ labeledInput \in {<<>>, <<"a">>}
    /\ labelOperatorInput \in {<<>>, T_and, T_not}
    /\ payload \in
         {[issue |-> NoItem, pull_request |-> NoItem]}
         \cup {[issue |-> IssueItem(ls, ms), pull_request |-> NoItem] :
                 ls \in {<<>>, <<[name |-> <<"a">>]>>},
                 ms \in {NoMilestone, Milestone(<<"v", "1">>)}}
         \cup {[issue |-> NoItem, pull_request |-> PullItem(ls, ms)] :
                 ls \in {<<>>, <<[name |-> <<"a">>]>>},
                 ms \in {NoMilestone, Milestone(<<"v", "1">>)}}
    /\ milestonedInput \in {<<>>, <<"v">>}
    /\ fuzzyMatch \in {"true", ""}
    /\ removeUnmatched \in {"true", ""}
    /\ projectUrl \in {GoodUrl, BadUrl}
    /\ remote \in {[totalCount |-> 0, linked |-> 0], [totalCount |-> 1, linked |-> 1]}
    /\ globalOwnerName \in {NoGlobal, SomeGlobal}

Init ==
    /\ Start
    /\ \/ LabelInputs
       \/ MilestoneInputs
       \/ UrlInputs
       \/ RemoteInputs
       \/ CrossInputs

Spec == Init /\ [][Next]_vars

\* ------------------------------------------------- reference definitions

\* The entries of a comma-separated input: trimmed, the empty ones dropped.
RefEntries(raw) ==
    {Trim(e) : e \in {Split(raw, ",")[i] : i \in 1..Len(Split(raw, ","))}} \ {<<>>}

RefSameLabel(x, y) == ToLower(x) = ToLower(y)

\* matchesLabels of the specification: L the label names of the event, F the
\* entries of the labeled input, op the operator as the action reads it
\* (surrounding blanks and letter case ignored).
RefMatchesLabels(L, F, op) ==
    LET has(f) == \E l \in L : RefSameLabel(f, l)
    IN  IF ToLower(Trim(op)) = T_and THEN \A f \in F : has(f)
        ELSE IF ToLower(Trim(op)) = T_not THEN F = {} \/ ~\E f \in F : has(f)
        ELSE F = {} \/ \E f \in F : has(f)

RefLabelNames ==
    IF issue.present THEN {issue.labels[i].name : i \in 1..Len(issue.labels)} ELSE {}

RefLabelsMatch ==
    RefMatchesLabels(RefLabelNames, RefEntries(labeledInput), labelOperatorInput)

RefIsPrefix(f, t) == \E k \in 0..Len(t) : [i \in 1..k |-> t[i]] = f

RefFuzzy == fuzzyMatch \in {"true", "True"}

\* matchesMilestone of the specification for a title t.
RefMatchesMilestone(t, F, fuzzy) ==
    IF F = {} THEN TRUE
    ELSE IF fuzzy THEN \E f \in F : RefIsPrefix(f, t)
    ELSE t \in F

\* matchesMilestone for the event: an absent milestone matches only the
\* empty filter.
RefMilestoneMatch ==
    IF RefEntries(milestonedInput) = {} THEN TRUE
    ELSE /\ issue.present
         /\ issue.milestone.present
         /\ RefMatchesMilestone(issue.milestone.title, RefEntries(milestonedInput), RefFuzzy)

\* decide of the specification.
RefDecision ==
    IF ~RefLabelsMatch THEN "SKIP"
    ELSE IF RefEntries(milestonedInput) # {} /\ ~RefMilestoneMatch
    THEN IF removeUnmatched \in {"true", "True"} THEN "REMOVE" ELSE "SKIP"
    ELSE "ADD"

\* The filtering stage (lines 70-107) is over.
FilteringOver == pc \notin {"start", "milestone"}

CallsOf(op) == SelectSeq(calls, LAMBDA c : c.op = op)

OutputNames == {outputs[i].name : i \in 1..Len(outputs)}

\* ------------------------------------------------------------------ claims

\* C1: the filtering stage always ends with exactly one of SKIP, ADD and
\* REMOVE decided, and raises no error.
C1_DecideTotal ==
    FilteringOver => decision \in {"SKIP", "ADD", "REMOVE"}

\* C2: the decision is SKIP when the labels do not match; otherwise, when the
\* milestone filter is not empty and the milestone does not match it, REMOVE
\* if remove-unmatched is 'true' or 'True' and SKIP if not; otherwise ADD.
C2_DecisionRule ==
    FilteringOver => decision = RefDecision

\* C3: a run that decides SKIP has ended successfully, with no remote call
\* issued and no output written, whatever the project URL.
C3_SkipIsSilent ==
    decision = "SKIP" =>
        /\ pc = "done"
        /\ error = "none"
        /\ calls = <<>>
        /\ outputs = <<>>

\* A run skipped although its project URL is malformed.
C3_Witness ==
    /\ decision = "SKIP"
    /\ pc = "done"
    /\ ~UrlMatch(projectUrl).matched

\* C4: when the getProject response lacks the project's node id, the run
\* fails at that step: no further call is issued and no output is written.
C4_MissingProjectIsFatal ==
    (Len(calls) >= 1 /\ pc # "await_getProject" /\ projectId = Undefined) =>
        /\ pc = "failed"
        /\ Len(calls) = 1
        /\ outputs = <<>>

\* The positions of the remote project's items that page k returned.
PageRange(k) == pages[k].first .. (pages[k].first + pages[k].count - 1)

\* Page k returned an item whose content id is the event's node id.
PageHoldsLinked(k) == issue.node_id = "I_1" /\ remote.linked \in PageRange(k)

PagesExhaustedWithoutItem ==
    /\ decision = "REMOVE"
    /\ Len(pages) >= 1
    /\ ~pages[Len(pages)].hasNextPage
    /\ \A k \in 1..Len(pages) : ~PageHoldsLinked(k)

C7_LabelGateIsMatchesLabels ==
    labelGate # "unset" => (labelGate = "pass" <=> RefLabelsMatch)

\* Under AND, filter "B,a" let an issue labelled b and A pass.
C7_Witness ==
    /\ labelGate = "pass"
    /\ labelOperatorInput = <<"A", "N", "D">>
    /\ labeledInput = <<"B", ",", "a">>
    /\ RefLabelNames = {<<"b">>, <<"A">>}

\* C8: an empty milestone filter always matches; a non-empty filter F matches
\* a title t, with fuzzy-match off, iff t is in F and, with fuzzy-match on,
\* iff some entry of F is a prefix of t.
C8_MilestoneGateIsMatchesMilestone ==
    milestoneGate # "unset" =>
        IF RefEntries(milestonedInput) = {} THEN milestoneGate = "match"
        ELSE (issue.present /\ issue.milestone.present) =>
                 (milestoneGate = "match" <=>
                      RefMatchesMilestone(issue.milestone.title,
                                          RefEntries(milestonedInput), RefFuzzy))

\* With fuzzy-match on, filter "v" matched the title "v1", which is not an
\* entry of the filter.
C8_Witness ==
    /\ milestoneGate = "match"
    /\ fuzzyMatch = "True"
    /\ milestonedInput = <<"v">>
    /\ issue.milestone.present
    /\ issue.milestone.title = <<"v", "1">>

\* The URLs of UrlCandidates and the fixed URLs that the pattern of the
\* source comment, https://github.com/orgs|users/<ownerName>/projects/
\* <projectNumber>, describes, each with what it resolves to; rest is what
\* follows the number.
RefUrls ==
    {[url |-> scheme \o T_github \o <<"/">> \o kind.seg \o <<"/">> \o T_acme
                \o <<"/">> \o T_projects \o <<"/">> \o number.text \o rest,
      root |-> kind.root, owner |-> T_acme, number |-> number.value, rest |-> rest] :
       scheme \in {<<>>, T_https},
       kind \in {[seg |-> T_orgs, root |-> "organization"],
                 [seg |-> T_users, root |-> "user"]},
       number \in {[text |-> <<"7">>, value |-> 7], [text |-> <<"0">>, value |-> 0],
                   [text |-> <<"1", "2">>, value |-> 12]},
       rest \in {<<>>, <<"x">>, T_views, <<"x">> \o T_views}}

\* The project URL was resolved: the getProject query went out.
Resolved == Len(calls) >= 1

\* Lines 109-122 have run: the filters let the run through and the URL was
\* matched, or was refused.
ResolvingOver == decision \in {"ADD", "REMOVE"} /\ pc # "resolve"

\* C9 as stated: resolution succeeds only for host/(orgs|users)/<owner>/
\* projects/<number> and nothing else, with a project number >= 1, the owner
\* name and the owner kind; any other string fails with the invalid-URL error
\* before any remote call.
C9_Original ==
    ResolvingOver =>
        IF \E r \in RefUrls : r.url = projectUrl /\ r.rest = <<>> /\ r.number >= 1
        THEN /\ Resolved
             /\ projectNumber >= 1
        ELSE /\ error = "Invalid project URL"
             /\ calls = <<>>

\* C9 as amended: resolution succeeds exactly for a string that starts with
\* an optional https://, github.com/(orgs|users)/<owner>/projects/ and one
\* or more digits, whatever follows the digits; it yields the query root
\* organization for orgs and user for users, the owner name, and the value
\* of the digits, which is >= 0; any other string fails with the invalid-URL
\* error before any remote call.
C9_UrlResolution ==
    ResolvingOver =>
        IF \E r \in RefUrls : r.url = projectUrl
        THEN LET r == CHOOSE x \in RefUrls : x.url = projectUrl
             IN  /\ Resolved
                 /\ calls[1].op = "getProject"
                 /\ calls[1].login = r.owner
                 /\ calls[1].number = r.number
                 /\ projectOwnerName = r.owner
                 /\ projectNumber = r.number
                 /\ projectNumber >= 0
                 /\ ownerTypeQuery = r.root
        ELSE /\ pc = "failed"
             /\ error = "Invalid project URL"
             /\ calls = <<>>

\* A users URL with project number 0 and a trailing /views was resolved.
C9_Witness ==
    /\ pc = "await_getProject"
    /\ projectNumber = 0
    /\ ownerTypeQuery = "user"
    /\ \E r \in RefUrls : r.url = projectUrl /\ r.rest = T_views

\* C10: a run that decides REMOVE never issues the add mutation and never
\* writes the itemId output.
C10_RemoveNeverAdds ==
    decision = "REMOVE" =>
        /\ CallsOf("addIssueToProject") = <<>>
        /\ "itemId" \notin OutputNames

====
